---- MODULE Spec2Model ----
(***************************************************************************)
(* Model of nostalgic.Configuration (src/nostalgic/nostalgic.py): a        *)
(* process-wide collection of Settings with getter/setter hooks to         *)
(* external components and persistence to a configparser/JSON file.        *)
(***************************************************************************)
EXTENDS Integers, Sequences, FiniteSets, TLC

VARIABLES settings, attrs, ext, files, dirs, nextId, singleton, last

vars == <<settings, attrs, ext, files, dirs, nextId, singleton, last>>

(* ---------------------------- bounds ---------------------------------- *)

\* number of Setting objects ever created (the constructor creates the first)
MaxDecl == 3
\* longest explicit key list handed to get()
MaxKeys == 2
\* number of instance attributes created by attribute assignment
MaxAttrs == 1

(* ------------------------ input domains ------------------------------- *)

\* Python values are named by their repr: None and the int 1
PyValues == {"None", "1"}
\* a string holding a percent sign
Percent == "'50%'"
Paths == {"/a/cfg", "/b/cfg"}
\* hook 0 is None (no callable); hook 1 reads or writes the external component
BoundHooks == {1}
Hooks == {0} \cup BoundHooks
Keys == {"config_file", "foo", "Foo", "get", "set"}
\* the <<setter, getter>> pairs each key is declared with
HooksFor(key) ==
    IF key = "foo" THEN Hooks \X Hooks
    ELSE IF key = "Foo" THEN {<<0, 0>>, <<1, 1>>}
    ELSE {<<0, 0>>}
\* the defaults each key is declared with
DefaultsFor(key) ==
    IF key = "config_file" THEN {"/b/cfg"}
    ELSE IF key = "foo" THEN PyValues
    ELSE IF key = "set" THEN {"1", Percent}
    ELSE {"1"}
\* the keys named in the lists handed to get()
ListedKeys == {"foo", "Foo", "set"}
\* the values assigned to each name
AssignedTo(name) == IF name = "config_file" THEN Paths ELSE PyValues

\* non-dunder names of Configuration.__dict__
Methods == {"add_setting", "read", "write", "get"}
\* the operation names the documentation gives the registry
OperationNames == {"add_setting", "read", "write", "get", "set"}

NoArg == "<omitted>"

(* --------------------------- Setting ---------------------------------- *)

\* Setting.__init__: value starts as the default
Setting(key, default, setter, getter, id) ==
    [key |-> key, default |-> default, value |-> default,
     setter |-> setter, getter |-> getter, id |-> id]

Declared(s) == {s[i].key : i \in DOMAIN s}

Index(s, key) == CHOOSE i \in DOMAIN s : s[i].key = key

\* dict store: an existing key keeps its position, a new key is appended
DictStore(s, key, setting) ==
    IF key \in Declared(s)
    THEN [s EXCEPT ![Index(s, key)] = setting]
    ELSE Append(s, setting)

\* Configuration.__getitem__ (callers check membership: a miss is KeyError)
getitem(s, key) == s[Index(s, key)]

\* "setting.value = v" on the Setting at position i
assign_value_and_default(s, i, v) ==
    [s EXCEPT ![i].value = v, ![i].default = v]

assign_value(s, i, v) == [s EXCEPT ![i].value = v]

EmptyMap == [k \in {} |-> "None"]

\* dict item assignment on a mapping modelled as a function
MapStore(m, k, v) == [x \in (DOMAIN m) \cup {k} |-> IF x = k THEN v ELSE m[x]]

MethodValue(name) == [kind |-> "method", v |-> name]
PlainValue(v) == [kind |-> "value", v |-> v]
Raised(e) == [kind |-> "raise", v |-> e]

\* the record of the last call: operation, arguments and outcome
NoCall ==
    [op |-> "init", key |-> NoArg, keys |-> <<>>, keysGiven |-> FALSE,
     val |-> NoArg, setter |-> 0, getter |-> 0, fname |-> NoArg,
     sync |-> NoArg, elevate |-> FALSE,
     err |-> "none", rv |-> PlainValue("None"), item |-> 0,
     changed |-> EmptyMap, notices |-> {}, gcalls |-> <<>>, scalls |-> <<>>]

(* ------------------------ attribute access ---------------------------- *)

\* Configuration.__getattr__: only reached when normal lookup fails
getattr_fallback(s, name) ==
    IF name \in Declared(s)
    THEN PlainValue(getitem(s, name).value)
    ELSE Raised("KeyError")

\* Configuration.__getattribute__ (object.__getattribute__): instance
\* __dict__, then class attributes, then __getattr__
getattribute(s, a, name) ==
    IF name \in DOMAIN a THEN PlainValue(a[name])
    ELSE IF name \in Methods THEN MethodValue(name)
    ELSE getattr_fallback(s, name)

\* self.config_file as read() and write() evaluate it
config_file(s, a) == getattribute(s, a, "config_file").v

\* registry.name
AttrRead ==
    \E name \in Keys :
      LET r == getattribute(settings, attrs, name) IN
      /\ last' = [NoCall EXCEPT !.op = "getattr", !.key = name, !.rv = r,
                     !.err = IF r.kind = "raise" THEN r.v ELSE "none"]
      /\ UNCHANGED <<settings, attrs, ext, files, dirs, nextId, singleton>>

\* registry.name = v: the class defines no __setattr__, so
\* object.__setattr__ stores into the instance __dict__
setattr(a, name, v) == MapStore(a, name, v)

AttrWrite ==
    \E name \in Keys :
      \E v \in AssignedTo(name) :
        /\ name \in DOMAIN attrs \/ Cardinality(DOMAIN attrs) < MaxAttrs
        /\ attrs' = setattr(attrs, name, v)
        /\ last' = [NoCall EXCEPT !.op = "setattr", !.key = name, !.val = v]
        /\ UNCHANGED <<settings, ext, files, dirs, nextId, singleton>>

\* registry.foo = v
AttrWriteFoo ==
    \E v \in AssignedTo("foo") :
      /\ attrs' = setattr(attrs, "foo", v)
      /\ last' = [NoCall EXCEPT !.op = "setattr", !.key = "foo", !.val = v]
      /\ UNCHANGED <<settings, ext, files, dirs, nextId, singleton>>

\* registry[key]
ItemRead ==
    \E key \in Keys :
      /\ last' = IF key \in Declared(settings)
                 THEN [NoCall EXCEPT !.op = "getitem", !.key = key,
                          !.item = getitem(settings, key).id]
                 ELSE [NoCall EXCEPT !.op = "getitem", !.key = key,
                          !.err = "KeyError"]
      /\ UNCHANGED <<settings, attrs, ext, files, dirs, nextId, singleton>>

\* registry[key] = v: the class defines no __setitem__
setitem_error == "TypeError"

ItemWrite ==
    \E key \in Keys :
     \E v \in AssignedTo(key) :
      /\ last' = [NoCall EXCEPT !.op = "setitem", !.key = key, !.val = v,
                     !.err = setitem_error]
      /\ UNCHANGED <<settings, attrs, ext, files, dirs, nextId, singleton>>

\* key in registry: the class defines neither __contains__ nor __iter__,
\* so the test iterates through __getitem__(0), (1), ...; the keys are
\* strings and the first lookup raises
contains_error == "KeyError"

Contains ==
    \E key \in Keys :
      /\ last' = [NoCall EXCEPT !.op = "contains", !.key = key,
                     !.rv = Raised(contains_error),
                     !.err = contains_error]
      /\ UNCHANGED <<settings, attrs, ext, files, dirs, nextId, singleton>>

\* len(registry): the class defines no __len__
len_error == "TypeError"

Length ==
    /\ last' = [NoCall EXCEPT !.op = "len", !.rv = Raised(len_error),
                   !.err = len_error]
    /\ UNCHANGED <<settings, attrs, ext, files, dirs, nextId, singleton>>

(* --------------------------- Init ------------------------------------- *)

NoFile == [exists |-> FALSE, entries |-> <<>>]

\* Configuration.__init__(filename): empty _settings, then
\* add_setting('config_file', abspath(filename))
Init ==
    /\ settings = <<Setting("config_file", "/a/cfg", 0, 0, 1)>>
    /\ attrs = EmptyMap
    /\ ext \in [BoundHooks -> PyValues]
    /\ files = [p \in Paths |-> NoFile]
    /\ dirs = {}
    /\ nextId = 2
    /\ singleton = [id |-> 1, registered |-> TRUE]
    /\ last = NoCall

(* -------------------------- singleton --------------------------------- *)

\* a metaclass call that never consults _instances
MustCreateAlways(sg) == sg.registered \/ ~sg.registered

\* SingletonMetaclass.__call__: "cls not in SingletonMetaclass._instances"
MustCreate(sg) == ~sg.registered

\* Configuration(filename): the registered instance is returned as it is;
\* otherwise a new instance is built by __init__ and registered
Construct ==
    \E filename \in Paths :
      LET call == [NoCall EXCEPT !.op = "construct", !.fname = filename] IN
      IF MustCreate(singleton)
      THEN /\ nextId <= MaxDecl
           /\ settings' = <<Setting("config_file", filename, 0, 0, nextId)>>
           /\ attrs' = EmptyMap
           /\ nextId' = nextId + 1
           /\ singleton' = [id |-> singleton.id + 1, registered |-> TRUE]
           /\ last' = [call EXCEPT !.item = singleton.id + 1]
           /\ UNCHANGED <<ext, files, dirs>>
      ELSE /\ last' = [call EXCEPT !.item = singleton.id]
           /\ UNCHANGED <<settings, attrs, ext, files, dirs, nextId,
                          singleton>>

\* SingletonMetaclass.__reset: the instance is removed from _instances
\* (a KeyError when there is none is swallowed)
Reset ==
    /\ singleton' = [singleton EXCEPT !.registered = FALSE]
    /\ last' = [NoCall EXCEPT !.op = "reset"]
    /\ UNCHANGED <<settings, attrs, ext, files, dirs, nextId>>

(* ------------------------- add_setting -------------------------------- *)

\* the membership test taken after the store
OverwriteAfterStore(s, key) == key \in Declared(s) \cup {key}

Overwrite(s, key) == key \in Declared(s)

\* key in Configuration.__dict__ and key[:2] != '__'
Shadows(key) == key \in Methods

add_setting(key, default, setter, getter, elevate) ==
    LET overwrite == Overwrite(settings, key)
        shadow == Shadows(key)
        call == [NoCall EXCEPT !.op = "add_setting", !.key = key,
                    !.val = default, !.setter = setter, !.getter = getter,
                    !.elevate = elevate]
    IN
    /\ nextId <= MaxDecl \/ (shadow /\ elevate)
    /\ IF shadow /\ elevate
       THEN \* warnings.warn raises before the Setting is built
            /\ last' = [call EXCEPT !.err = "ShadowWarning",
                                    !.notices = {"shadow"}]
            /\ UNCHANGED <<settings, nextId>>
       ELSE /\ settings' = DictStore(settings, key,
                               Setting(key, default, setter, getter, nextId))
            /\ nextId' = nextId + 1
            /\ last' = [call EXCEPT
                  !.notices = (IF shadow THEN {"shadow"} ELSE {})
                         \cup (IF overwrite THEN {"overwrite"} ELSE {}),
                  !.err = IF overwrite /\ elevate
                          THEN "OverwriteWarning" ELSE "none"]
    /\ UNCHANGED <<attrs, ext, files, dirs, singleton>>

\* the warnings filter is the host's: "error" turns a notice into a raise;
\* it is enumerated only where a notice is issued
AddSetting ==
    \E key \in Keys, elevate \in BOOLEAN :
      \E default \in DefaultsFor(key), hooks \in HooksFor(key) :
        /\ elevate => (Overwrite(settings, key) \/ Shadows(key))
        /\ add_setting(key, default, hooks[1], hooks[2], elevate)

\* declarations of 'foo' alone, under the default warnings filter
AddSettingFoo ==
    \E default \in DefaultsFor("foo"), hooks \in HooksFor("foo") :
      add_setting("foo", default, hooks[1], hooks[2], FALSE)

\* the external component changes on its own (the user moves a widget)
ExtChange ==
    \E h \in BoundHooks, v \in PyValues :
      /\ ext[h] # v
      /\ ext' = [ext EXCEPT ![h] = v]
      /\ last' = [NoCall EXCEPT !.op = "ext"]
      /\ UNCHANGED <<settings, attrs, files, dirs, nextId, singleton>>

(* ------------------------------ get ----------------------------------- *)

\* the key lists handed to get(): declared or not, repeats allowed
KeyLists == UNION {[1..n -> ListedKeys] : n \in 0..MaxKeys}

\* dict.keys(): the declared keys in insertion order
AllKeys(s) == [i \in DOMAIN s |-> s[i].key]

\* "if not keys: keys = self.__dict__['_settings'].keys()"
GetKeys(s, keysGiven, keys) ==
    IF ~keysGiven \/ keys = <<>> THEN AllKeys(s) ELSE keys

\* the body of the for loop of get(), from position i on; e is the external
\* state the getters read
RECURSIVE GetLoop(_, _, _, _, _, _)
GetLoop(s, e, ks, i, changed, calls) ==
    IF i > Len(ks)
    THEN [settings |-> s, changed |-> changed, gcalls |-> calls,
          err |-> "none"]
    ELSE IF ks[i] \notin Declared(s)
    THEN [settings |-> s, changed |-> changed, gcalls |-> calls,
          err |-> "KeyError"]
    ELSE LET setting == getitem(s, ks[i]) IN
         IF setting.getter # 0
         THEN LET new_value == e[setting.getter] IN
              GetLoop(assign_value(s, Index(s, ks[i]), new_value), e, ks,
                      i + 1, MapStore(changed, ks[i], setting.value),
                      Append(calls, ks[i]))
         ELSE GetLoop(s, e, ks, i + 1, changed, calls)

get(keysGiven, keys) ==
    LET r == GetLoop(settings, ext, GetKeys(settings, keysGiven, keys), 1,
                     EmptyMap, <<>>) IN
    /\ settings' = r.settings
    /\ last' = [NoCall EXCEPT !.op = "get", !.keysGiven = keysGiven,
                   !.keys = keys, !.err = r.err, !.gcalls = r.gcalls,
                   !.changed = IF r.err = "none" THEN r.changed ELSE EmptyMap]
    /\ UNCHANGED <<attrs, ext, files, dirs, nextId, singleton>>

Get ==
    \/ get(FALSE, <<>>)
    \/ \E keys \in KeyLists : get(TRUE, keys)

\* registry.get() and registry.get(['foo'])
GetFoo == get(FALSE, <<>>) \/ get(TRUE, <<"foo">>)

(* ------------------------------ set ----------------------------------- *)

\* registry.set(...): the class defines no set method, so the call
\* evaluates the attribute "set" and then calls what it got
CallAttr(s, a, name) ==
    LET r == getattribute(s, a, name) IN
    IF r.kind = "raise" THEN r.v
    ELSE IF r.kind = "method" THEN "none"
    ELSE "TypeError"

set(keysGiven, keys) ==
    /\ last' = [NoCall EXCEPT !.op = "set", !.keysGiven = keysGiven,
                   !.keys = keys, !.err = CallAttr(settings, attrs, "set")]
    /\ UNCHANGED <<settings, attrs, ext, files, dirs, nextId, singleton>>

Set ==
    \E keysGiven \in BOOLEAN, keys \in KeyLists :
      /\ keysGiven \/ keys = <<>>
      /\ set(keysGiven, keys)

\* registry.set() and registry.set(['foo'])
SetFoo == set(FALSE, <<>>) \/ set(TRUE, <<"foo">>)

(* --------------------------- persistence ------------------------------ *)

\* json.dumps on the values of the model
json_dumps(v) ==
    CASE v = "None" -> "null"
      [] v = "1" -> "1"
      [] v = "/a/cfg" -> "\"/a/cfg\""
      [] v = "/b/cfg" -> "\"/b/cfg\""
      [] v = Percent -> "\"50%\""

\* json.loads on the texts json_dumps produces
json_loads(t) ==
    CASE t = "null" -> "None"
      [] t = "1" -> "1"
      [] t = "\"/a/cfg\"" -> "/a/cfg"
      [] t = "\"/b/cfg\"" -> "/b/cfg"
      [] t = "\"50%\"" -> Percent

\* ConfigParser.optionxform: option names are lower-cased
optionxform(key) == IF key = "Foo" THEN "foo" ELSE key

\* os.path.dirname
dirname(p) == IF p = "/a/cfg" THEN "/a" ELSE "/b"

\* os.path, open and json accept the values that are path strings
IsPath(v) == v \in Paths

Options(entries) == {entries[i][1] : i \in DOMAIN entries}

OptionIndex(entries, opt) == CHOOSE i \in DOMAIN entries : entries[i][1] = opt

\* BasicInterpolation.before_set: a value with a lone '%' is refused
\* (ValueError)
before_set_ok(text) == text # "\"50%\""

\* parser.set('General', key, value): the section is a dict keyed by
\* optionxform(key)
parser_set(entries, key, text) ==
    LET opt == optionxform(key) IN
    IF opt \in Options(entries)
    THEN [entries EXCEPT ![OptionIndex(entries, opt)] = <<opt, text>>]
    ELSE Append(entries, <<opt, text>>)

\* a test that compares the option name as written
has_option_as_written(entries, key) == key \in Options(entries)

\* parser.has_option('General', key)
has_option(entries, key) == optionxform(key) \in Options(entries)

\* parser['General'][key]
parser_get(entries, key) == entries[OptionIndex(entries, optionxform(key))][2]

\* the for loop of write(), from position i on
RECURSIVE WriteLoop(_, _, _, _, _)
WriteLoop(s, e, i, entries, calls) ==
    IF i > Len(s)
    THEN [settings |-> s, entries |-> entries, gcalls |-> calls,
          err |-> "none"]
    ELSE IF s[i].key # "config_file"
    THEN LET v == IF s[i].getter # 0 THEN e[s[i].getter] ELSE s[i].value
             synced == assign_value(s, i, v)
             called == IF s[i].getter # 0 THEN Append(calls, s[i].key)
                       ELSE calls
         IN
         IF before_set_ok(json_dumps(v))
         THEN WriteLoop(synced, e, i + 1,
                        parser_set(entries, s[i].key, json_dumps(v)), called)
         ELSE [settings |-> synced, entries |-> entries, gcalls |-> called,
               err |-> "ValueError"]
    ELSE WriteLoop(s, e, i + 1, entries, calls)

\* write(filename) of the source takes no sync argument: passing one is a
\* TypeError at the call
write(fname, sync) ==
    LET call == [NoCall EXCEPT !.op = "write", !.fname = fname,
                    !.sync = sync]
        target == config_file(settings, attrs)
        r == WriteLoop(settings, ext, 1, <<>>, <<>>)
    IN
    IF sync # NoArg
    THEN /\ last' = [call EXCEPT !.err = "TypeError"]
         /\ UNCHANGED <<settings, attrs, ext, files, dirs, nextId, singleton>>
    ELSE IF ~IsPath(target)
    THEN /\ last' = [call EXCEPT !.err = "TypeError"]
         /\ UNCHANGED <<settings, attrs, ext, files, dirs, nextId, singleton>>
    ELSE /\ dirs' = dirs \cup {dirname(target)}
         /\ settings' = r.settings
         /\ files' = IF r.err = "none"
                     THEN [files EXCEPT ![target] =
                             [exists |-> TRUE, entries |-> r.entries]]
                     ELSE files
         /\ last' = [call EXCEPT !.gcalls = r.gcalls, !.err = r.err]
         /\ UNCHANGED <<attrs, ext, nextId, singleton>>

SyncArgs == {NoArg, "True", "False"}

Write ==
    \E fname \in {NoArg} \cup Paths, sync \in SyncArgs : write(fname, sync)

\* BasicInterpolation.before_get: a lone '%' in a stored value is refused
\* (InterpolationSyntaxError)
before_get_ok(text) == text # "\"50%\""

\* the texts json.loads accepts
json_ok(text) == text \in {"null", "1", "\"/a/cfg\"", "\"/b/cfg\"", "\"50%\""}

\* the files the host or an earlier run left on disk, as ConfigParser
\* parses them: the options of section General, names lower-cased
EnvContents ==
    { << <<"foo", "1">>, <<"extra", "1">> >>,
      << <<"config_file", "\"/b/cfg\"">>, <<"foo", "null">> >>,
      << <<"foo", "1">>, <<"set", "two">> >> }

\* a configuration file appears at the constructor's path
EnvFile ==
    \E entries \in EnvContents :
      /\ files["/a/cfg"] # [exists |-> TRUE, entries |-> entries]
      /\ files' = [files EXCEPT !["/a/cfg"] =
                      [exists |-> TRUE, entries |-> entries]]
      /\ last' = [NoCall EXCEPT !.op = "env"]
      /\ UNCHANGED <<settings, attrs, ext, dirs, nextId, singleton>>

\* the for loop of read(), from position i on
RECURSIVE ReadLoop(_, _, _, _, _)
ReadLoop(s, e, i, entries, calls) ==
    IF i > Len(s)
    THEN [settings |-> s, ext |-> e, scalls |-> calls, err |-> "none"]
    ELSE IF has_option(entries, s[i].key)
    THEN LET raw_value == parser_get(entries, s[i].key) IN
         IF ~before_get_ok(raw_value)
         THEN [settings |-> s, ext |-> e, scalls |-> calls,
               err |-> "InterpolationSyntaxError"]
         ELSE IF ~json_ok(raw_value)
         THEN [settings |-> s, ext |-> e, scalls |-> calls,
               err |-> "JSONDecodeError"]
         ELSE LET value == json_loads(raw_value) IN
              ReadLoop(assign_value(s, i, value),
                       IF s[i].setter # 0
                       THEN [e EXCEPT ![s[i].setter] = value] ELSE e,
                       i + 1, entries,
                       IF s[i].setter # 0 THEN Append(calls, s[i].key)
                       ELSE calls)
    ELSE ReadLoop(s, e, i + 1, entries, calls)

\* read(filename) of the source takes no sync argument either
read(fname, sync) ==
    LET call == [NoCall EXCEPT !.op = "read", !.fname = fname, !.sync = sync]
        filename == IF fname = NoArg THEN config_file(settings, attrs)
                    ELSE fname
    IN
    IF sync # NoArg
    THEN /\ last' = [call EXCEPT !.err = "TypeError"]
         /\ UNCHANGED <<settings, attrs, ext, files, dirs, nextId, singleton>>
    ELSE IF ~IsPath(filename)
    THEN /\ last' = [call EXCEPT !.err = "OSError"]
         /\ UNCHANGED <<settings, attrs, ext, files, dirs, nextId, singleton>>
    ELSE IF ~files[filename].exists
    THEN /\ last' = [call EXCEPT !.err = "FileNotFoundError"]
         /\ UNCHANGED <<settings, attrs, ext, files, dirs, nextId, singleton>>
    ELSE LET r == ReadLoop(settings, ext, 1, files[filename].entries, <<>>) IN
         /\ settings' = r.settings
         /\ ext' = r.ext
         /\ last' = [call EXCEPT !.scalls = r.scalls, !.err = r.err]
         /\ UNCHANGED <<attrs, files, dirs, nextId, singleton>>

Read ==
    \E fname \in {NoArg} \cup Paths, sync \in SyncArgs : read(fname, sync)

(* ------------------------- specifications ----------------------------- *)

\* every operation of the registry and its environment
Next ==
    \/ AddSetting \/ ExtChange
    \/ AttrRead \/ AttrWrite \/ ItemRead \/ ItemWrite
    \/ Contains \/ Length
    \/ Get \/ Set
    \/ Write \/ Read
    \/ Construct \/ Reset
    \/ EnvFile

\* declaration and synchronization with the external component
NextSync == AddSetting \/ ExtChange \/ Get \/ Set

SpecSync == Init /\ [][NextSync]_vars

\* declaration and attribute / mapping access
NextAccess == AddSetting \/ AttrRead \/ AttrWrite \/ ItemRead \/ ItemWrite

SpecAccess == Init /\ [][NextAccess]_vars

Spec == Init /\ [][Next]_vars

\* construction, reset and declaration
NextSingleton == AddSetting \/ Construct \/ Reset

SpecSingleton == Init /\ [][NextSingleton]_vars

\* declaration and loading of files found on disk
NextRead == AddSetting \/ EnvFile \/ Read

SpecRead == Init /\ [][NextRead]_vars

\* the same with attribute assignment
NextPath == AddSetting \/ AttrWrite \/ EnvFile \/ Read

SpecPath == Init /\ [][NextPath]_vars

\* declaration alone, observed through registry[key]
NextDeclare == AddSetting \/ ItemRead

SpecDeclare == Init /\ [][NextDeclare]_vars

\* declaration and persistence, with the external component changing
NextPersist == AddSetting \/ ExtChange \/ Write \/ Read

SpecPersist == Init /\ [][NextPersist]_vars

\* the operations that act on declared settings, applied to 'foo':
\* assignment, get, set, write and read
NextOps ==
    \/ AddSettingFoo \/ AttrWriteFoo \/ ItemWrite
    \/ GetFoo \/ SetFoo
    \/ Write \/ Read

SpecOps == Init /\ [][NextOps]_vars

\* declaration and the container protocol
NextContainer == AddSetting \/ Contains \/ Length

SpecContainer == Init /\ [][NextContainer]_vars

(* ============================ claims ================================== *)

Range(q) == {q[i] : i \in DOMAIN q}

\* the declared keys that are persisted, in declaration order
PersistedKeys(s) ==
    LET ks == AllKeys(s) IN
    SelectSeq(ks, LAMBDA k : k # "config_file")

\* C1: get(keys) with an explicit list of declared keys returns a mapping
\* whose key set is exactly the listed keys that have a getter, each mapped
\* to the value the setting had immediately before the call; afterwards each
\* such setting holds its getter's return and every listed key without a
\* getter is absent from the result and keeps its value.
C1_GetReturnsPreSyncValues ==
    [][(/\ last'.op = "get"
        /\ last'.keysGiven
        /\ Range(last'.keys) \subseteq Declared(settings))
       => LET listed == Range(last'.keys)
              bound == {k \in listed : getitem(settings, k).getter # 0}
          IN
          /\ last'.err = "none"
          /\ DOMAIN last'.changed = bound
          /\ \A k \in bound :
                /\ last'.changed[k] = getitem(settings, k).value
                /\ getitem(settings', k).value
                      = ext[getitem(settings, k).getter]
          /\ \A k \in listed \ bound :
                getitem(settings', k).value = getitem(settings, k).value
      ]_vars

\* C2: get(keys) with an explicit list (the empty list included) invokes no
\* getter of, and leaves unchanged, every declared setting whose key is not
\* in keys.
C2_GetLeavesUnlistedAlone ==
    [][(last'.op = "get" /\ last'.keysGiven)
       => \A i \in DOMAIN settings :
             settings[i].key \notin Range(last'.keys)
             => /\ settings'[i] = settings[i]
                /\ settings[i].key \notin Range(last'.gcalls)
      ]_vars

\* C3: set(keys=None) exists: it invokes the bound setter of each listed key
\* (all declared keys when omitted) with the setting's current value, invokes
\* no other setter, changes no value and returns None.
C3_SetPushesValues ==
    [][last'.op = "set"
       => LET targets == IF last'.keysGiven THEN Range(last'.keys)
                         ELSE Declared(settings)
              bound == {k \in targets \cap Declared(settings) :
                           getitem(settings, k).setter # 0}
          IN
          /\ last'.err = "none"
          /\ last'.rv = PlainValue("None")
          /\ Range(last'.scalls) = bound
          /\ settings' = settings
      ]_vars

\* C4: after registry.k = v or registry[k] = v on a declared key k,
\* registry[k] is the same Setting object as before, its value is v, its
\* default is unchanged and registry.k reads v.
C4_AssignmentSetsValue ==
    [][(/\ last'.op \in {"setattr", "setitem"}
        /\ last'.key \in Declared(settings))
       => LET k == last'.key IN
          /\ last'.err = "none"
          /\ getitem(settings', k).id = getitem(settings, k).id
          /\ getitem(settings', k).value = last'.val
          /\ getitem(settings', k).default = getitem(settings, k).default
          /\ getattribute(settings', attrs', k) = PlainValue(last'.val)
      ]_vars

\* C5: attribute read and attribute write of a key that was never declared
\* (and is no method) both fail with a "no such setting" error and leave the
\* registry unchanged: no setting and no attribute is created.
C5_UndeclaredAccessFails ==
    [][(/\ last'.op \in {"getattr", "setattr"}
        /\ last'.key \notin Declared(settings)
        /\ last'.key \notin Methods)
       => /\ last'.err = "KeyError"
          /\ settings' = settings
          /\ attrs' = attrs
      ]_vars

\* the Setting stored at key carries exactly the last declaration
HoldsDeclaration(s, call) ==
    /\ call.key \in Declared(s)
    /\ getitem(s, call.key).value = call.val
    /\ getitem(s, call.key).default = call.val
    /\ getitem(s, call.key).setter = call.setter
    /\ getitem(s, call.key).getter = call.getter

\* C6 (as claimed): add_setting of a key that already exists always emits an
\* overwrite notice and replaces the stored Setting by one holding the new
\* default and exactly the new getter and setter; add_setting of a new key
\* emits no overwrite notice.
C6_RedeclareAlwaysOverwrites ==
    [][last'.op = "add_setting"
       => IF last'.key \in Declared(settings)
          THEN /\ "overwrite" \in last'.notices
               /\ HoldsDeclaration(settings', last')
               /\ getitem(settings', last'.key).id
                     # getitem(settings, last'.key).id
          ELSE "overwrite" \notin last'.notices
      ]_vars

\* C6 (amended): the same, unless the key is also a method name and notices
\* are raised as errors: the shadow notice then aborts the call before the
\* Setting is replaced and before any overwrite notice.
C6_RedeclareOverwritesUnlessShadowAborts ==
    [][(last'.op = "add_setting" /\ last'.err # "ShadowWarning")
       => IF last'.key \in Declared(settings)
          THEN /\ "overwrite" \in last'.notices
               /\ HoldsDeclaration(settings', last')
               /\ getitem(settings', last'.key).id
                     # getitem(settings, last'.key).id
          ELSE "overwrite" \notin last'.notices
      ]_vars

\* a hooked key was redeclared: the overwrite notice was emitted and the
\* stored Setting is the new one, without the hooks it had before
C6_Witness ==
    /\ last.op = "add_setting"
    /\ last.key = "foo"
    /\ "overwrite" \in last.notices
    /\ last.getter = 0
    /\ HoldsDeclaration(settings, last)
    /\ getitem(settings, "foo").id = 3

\* C7: add_setting of a key equal to an operation name (add_setting, read,
\* write, get, set) always emits a shadow notice; afterwards attribute access
\* to the key returns the operation and registry[key] is the Setting holding
\* the declared default.
C7_OperationNamesShadow ==
    [][(last'.op = "add_setting" /\ last'.key \in OperationNames)
       => /\ "shadow" \in last'.notices
          /\ last'.err = "none"
             => /\ getattribute(settings', attrs', last'.key)
                      = MethodValue(last'.key)
                /\ HoldsDeclaration(settings', last')
      ]_vars

\* C8: when notices are raised as errors, an add_setting that raises an
\* overwrite or a shadow notice does not take effect: the settings mapping
\* is the same after the failed call as before it.
C8_ElevatedNoticeAbortsDeclare ==
    [][(/\ last'.op = "add_setting"
        /\ last'.elevate
        /\ last'.notices # {})
       => settings' = settings
      ]_vars

\* C9: a successful write() leaves the target file with exactly one entry
\* for every declared setting other than config_file, in declaration order,
\* and no other entry (option names compared as the file format compares
\* them, without regard to case).
C9_WriteOneEntryPerSetting ==
    [][(last'.op = "write" /\ last'.fname = NoArg /\ last'.err = "none")
       => LET entries == files'[config_file(settings', attrs')].entries
              keys == PersistedKeys(settings')
          IN
          /\ Len(entries) = Len(keys)
          /\ \A i \in DOMAIN entries :
                entries[i][1] = optionxform(keys[i])
      ]_vars

\* C10: write(sync=True), the default, sets every setting that has a getter
\* to the getter's return and persists that; write(sync=False) completes,
\* invokes no getter, leaves every value unchanged and persists the current
\* values.
C10_WriteSyncFlag ==
    [][(last'.op = "write" /\ last'.fname = NoArg)
       => LET entries == files'[config_file(settings', attrs')].entries IN
          /\ last'.err = "none"
          /\ last'.sync = "False"
             => /\ last'.gcalls = <<>>
                /\ settings' = settings
          /\ last'.sync # "False"
             => \A i \in DOMAIN settings :
                   settings[i].getter # 0
                   => settings'[i].value = ext[settings[i].getter]
          /\ \A i \in DOMAIN settings' :
                settings'[i].key # "config_file"
                => /\ has_option(entries, settings'[i].key)
                   /\ parser_get(entries, settings'[i].key)
                         = json_dumps(settings'[i].value)
      ]_vars

\* the ids of the Setting objects a registry holds
SettingIds(s) == {s[i].id : i \in DOMAIN s}

\* C14: two constructions with no reset between them return the same
\* instance, whatever filename is passed, with its settings (config_file
\* included) as they were; after a reset the next construction returns a
\* distinct instance holding none of the previously declared settings.
C14_SingletonLaw ==
    [][last'.op = "construct"
       => IF singleton.registered
          THEN /\ last'.item = singleton.id
               /\ singleton' = singleton
               /\ settings' = settings
               /\ attrs' = attrs
          ELSE /\ last'.item > singleton.id
               /\ singleton'.id = last'.item
               /\ Declared(settings') = {"config_file"}
               /\ getitem(settings', "config_file").value = last'.fname
               /\ SettingIds(settings') \cap SettingIds(settings) = {}
               /\ attrs' = EmptyMap
      ]_vars

\* a second instance was built after a reset, when the first one had been
\* given a setting since its construction
C14_Witness ==
    /\ last.op = "construct"
    /\ last.item = 2
    /\ singleton = [id |-> 2, registered |-> TRUE]
    /\ nextId = 4
    /\ Declared(settings) = {"config_file"}

\* option names as the file format compares them: without regard to case
FoldCase(key) == IF key = "Foo" THEN "foo" ELSE key

\* the positions of the file's entry for key (none when the key is absent)
EntriesFor(entries, key) ==
    {j \in DOMAIN entries : entries[j][1] = FoldCase(key)}

\* the file a read call with the arguments of call opens
FileRead(call, s, a) ==
    IF call.fname = NoArg THEN config_file(s, a) ELSE call.fname

Decodable(entries) ==
    \A j \in DOMAIN entries :
       json_ok(entries[j][2]) /\ before_get_ok(entries[j][2])

\* C12: read(sync=True), the default, invokes the bound setter of every
\* loaded setting with the loaded value; read(sync=False) completes, updates
\* the registry values from the file and invokes no setter, leaving the
\* external components unchanged.
C12_ReadSyncFlag ==
    [][(/\ last'.op = "read"
        /\ IsPath(FileRead(last', settings, attrs))
        /\ files[FileRead(last', settings, attrs)].exists
        /\ Decodable(files[FileRead(last', settings, attrs)].entries))
       => LET entries == files[FileRead(last', settings, attrs)].entries
              loaded == {i \in DOMAIN settings :
                            EntriesFor(entries, settings[i].key) # {}}
          IN
          /\ last'.err = "none"
          /\ \A i \in loaded :
                \E j \in EntriesFor(entries, settings[i].key) :
                   settings'[i].value = json_loads(entries[j][2])
          /\ IF last'.sync = "False"
             THEN last'.scalls = <<>> /\ ext' = ext
             ELSE \A i \in loaded :
                     settings[i].setter # 0
                     => settings[i].key \in Range(last'.scalls)
      ]_vars

\* C13: round trip: for any declared keys (other than config_file) holding
\* values representable in the encoding, write() completes, and a read()
\* that follows it completes and leaves every such setting's value equal to
\* the value that was written.
C13_RoundTrip ==
    [][/\ (last'.op = "write" /\ last'.fname = NoArg /\ last'.sync = NoArg)
          => last'.err = "none"
       /\ (/\ last.op = "write" /\ last.fname = NoArg /\ last.err = "none"
           /\ last'.op = "read" /\ last'.fname = NoArg /\ last'.sync = NoArg)
          => /\ last'.err = "none"
             /\ \A i \in DOMAIN settings :
                   settings[i].key # "config_file"
                   => settings'[i].value = settings[i].value
      ]_vars

\* C15: a write(filename=f) that completes, with f different from the
\* registry's config_file value, creates f's parent directory if missing,
\* writes the serialized settings to f and leaves the file at config_file
\* untouched.
C15_WriteToGivenFile ==
    [][(/\ last'.op = "write"
        /\ last'.err = "none"
        /\ last'.fname \in Paths
        /\ last'.fname # config_file(settings, attrs))
       => /\ dirname(last'.fname) \in dirs'
          /\ files'[last'.fname].exists
          /\ Len(files'[last'.fname].entries) = Len(PersistedKeys(settings'))
          /\ files'[config_file(settings, attrs)]
                = files[config_file(settings, attrs)]
      ]_vars

\* C16: a registry operation (attribute or mapping assignment, get, set,
\* read, write) that does not redeclare key k leaves the Setting at k in
\* place with the default given at its declaration, also when it changes
\* the Setting's value.
C16_DefaultImmutable ==
    [][\A i \in DOMAIN settings :
          last'.op \in {"setattr", "setitem", "get", "set", "read", "write"}
          => /\ i \in DOMAIN settings'
             /\ settings'[i].key = settings[i].key
             /\ settings'[i].id = settings[i].id
             /\ settings'[i].default = settings[i].default
      ]_vars

\* get or read has replaced the value of a Setting declared with another
\* default
C16_Witness ==
    /\ last.op \in {"get", "read"}
    /\ last.err = "none"
    /\ \E i \in DOMAIN settings :
          /\ settings[i].key # "config_file"
          /\ settings[i].value # settings[i].default

\* C17: "key in registry" evaluates without error to whether key is a
\* declared setting, and len(registry) evaluates without error to the
\* number of declared settings.
C17_ContainsAndLen ==
    [][/\ last'.op = "contains"
          => /\ last'.err = "none"
             /\ last'.rv = PlainValue(IF last'.key \in Declared(settings)
                                      THEN "True" ELSE "False")
       /\ last'.op = "len"
          => /\ last'.err = "none"
             /\ last'.item = Len(settings)
      ]_vars

\* C18: a read or write call that fails leaves the prior state unchanged:
\* no setting's value differs from before the call, no setter or getter
\* has been invoked, the external component is as before and the files on
\* disk have their prior content.
C18_FailedCallChangesNothing ==
    [][(last'.op \in {"read", "write"} /\ last'.err # "none")
       => /\ settings' = settings
          /\ last'.scalls = <<>>
          /\ ext' = ext
          /\ files' = files
      ]_vars

\* C19: when the file a completed read() loads holds a config_file entry,
\* the config_file Setting takes the entry's value, and the path a later
\* read() or write() without a filename resolves (self.config_file) is
\* that value.
C19_ReadRetargetsConfigFile ==
    [][(last'.op = "read" /\ last'.err = "none")
       => LET entries == files[FileRead(last', settings, attrs)].entries IN
          \A j \in EntriesFor(entries, "config_file") :
             /\ getitem(settings', "config_file").value
                   = json_loads(entries[j][2])
             /\ config_file(settings', attrs') = json_loads(entries[j][2])
      ]_vars

====
